---- MODULE Spec2Model ----
(***************************************************************************)
(* A model of finance_dashboard.py: the regex amount extractor, the        *)
(* keyword type tagger, the upload / pipeline / filter / aggregate /       *)
(* export script that Streamlit re-executes top to bottom on every         *)
(* interaction.                                                            *)
(*                                                                         *)
(* Text is a sequence of one-character strings.  A parsed float is the     *)
(* exact decimal [kind |-> "float", m, e] standing for m / 10^e with       *)
(* trailing zeros stripped; within the bounds used here (at most nine      *)
(* significant digits) distinct decimals are distinct doubles, and the     *)
(* amounts of the dashboard messages are integers, so sums and the         *)
(* products by 0.8 and 0.6 are exact in double arithmetic as well.         *)
(***************************************************************************)
EXTENDS Integers, Sequences, FiniteSets, TLC

VARIABLES
    text,            \* pure-function harness: the input string
    out,             \* pure-function harness: the value returned for text
    uploaded_file,   \* the file held by st.file_uploader (NoFile when none)
    selected_type,   \* value of the "Transaction Type" multiselect
    selected_cat,    \* value of the "Category" multiselect
    df,              \* <<>> when df is None or the pass aborted, else <<table>>
    filtered_df,     \* rows of filtered_df of the last pass
    snapshot,        \* <<>> or <<[total_spent, total_credited, top_cat]>>
    model,           \* the cached classifier: normalised text -> category
    ui,              \* the elements the last pass put on the page
    csv,             \* <<>> or <<[header, rows]>>: the data of download_button
    exc              \* "none" or the exception that aborted the last pass

vars == <<text, out, model, uploaded_file, selected_type, selected_cat, df,
          filtered_df, snapshot, ui, csv, exc>>

appVars == <<model, uploaded_file, selected_type, selected_cat, df, filtered_df,
             snapshot, ui, csv, exc>>

-----------------------------------------------------------------------------
(* Characters and strings *)

\* The single character U+20B9 (the rupee sign).
Rupee == "U+20B9"

DigitChars == <<"0", "1", "2", "3", "4", "5", "6", "7", "8", "9">>
Digits == {DigitChars[i] : i \in 1..10}
DigitComma == Digits \cup {","}
Spaces == {" ", "\t"}

UpperChars == <<"A", "B", "C", "D", "E", "F", "G", "H", "I", "J", "K", "L", "M",
                "N", "O", "P", "Q", "R", "S", "T", "U", "V", "W", "X", "Y", "Z">>
LowerChars == <<"a", "b", "c", "d", "e", "f", "g", "h", "i", "j", "k", "l", "m",
                "n", "o", "p", "q", "r", "s", "t", "u", "v", "w", "x", "y", "z">>

\* str.lower() on one character.
LowerChar(c) ==
    IF \E i \in 1..26 : UpperChars[i] = c
    THEN LowerChars[CHOOSE i \in 1..26 : UpperChars[i] = c]
    ELSE c

\* str.lower()
Lower(s) == [i \in 1..Len(s) |-> LowerChar(s[i])]

\* str.strip(): surrounding whitespace removed.
Strip(s) ==
    LET keep == {i \in 1..Len(s) : s[i] \notin Spaces}
    IN  IF keep = {} THEN <<>>
        ELSE SubSeq(s, CHOOSE i \in keep : \A j \in keep : i <= j,
                       CHOOSE i \in keep : \A j \in keep : i >= j)

\* Python's `w in s` for strings.
Contains(s, w) ==
    \E i \in 1..(Len(s) - Len(w) + 1) : SubSeq(s, i, i + Len(w) - 1) = w

RECURSIVE Concat(_)
Concat(ss) == IF ss = <<>> THEN <<>> ELSE Head(ss) \o Concat(Tail(ss))

-----------------------------------------------------------------------------
(* Decimal numbers *)

NoneVal == [kind |-> "None", m |-> 0, e |-> 0]
ValueError == [kind |-> "ValueError", m |-> 0, e |-> 0]
Pending == [kind |-> "pending", m |-> 0, e |-> 0]

RECURSIVE Pow10(_)
Pow10(n) == IF n = 0 THEN 1 ELSE 10 * Pow10(n - 1)

RECURSIVE Normalize(_, _)
Normalize(m, e) ==
    IF e > 0 /\ m % 10 = 0 THEN Normalize(m \div 10, e - 1)
    ELSE [kind |-> "float", m |-> m, e |-> e]

Zero == Normalize(0, 0)

DigitVal(c) == (CHOOSE i \in 1..10 : DigitChars[i] = c) - 1

RECURSIVE ParseNat(_)
ParseNat(ds) ==
    IF ds = <<>> THEN 0
    ELSE 10 * ParseNat(SubSeq(ds, 1, Len(ds) - 1)) + DigitVal(ds[Len(ds)])

\* float(s) for s made of digits and at most one "." (all the regex group
\* can hold once the commas are removed): ValueError when s has no digit.
float(s) ==
    LET ds == SelectSeq(s, LAMBDA c : c \in Digits)
        dots == {i \in 1..Len(s) : s[i] = "."}
        frac == IF dots = {} THEN 0 ELSE Len(s) - (CHOOSE i \in dots : TRUE)
    IN  IF ds = <<>> THEN ValueError ELSE Normalize(ParseNat(ds), frac)

Add(a, b) ==
    LET e == IF a.e >= b.e THEN a.e ELSE b.e
    IN  Normalize(a.m * Pow10(e - a.e) + b.m * Pow10(e - b.e), e)

\* a > b * (n / 10), for the float literals 0.8 and 0.6
GtTenths(a, b, n) ==
    LET e == IF a.e >= b.e THEN a.e ELSE b.e
    IN  10 * a.m * Pow10(e - a.e) > n * b.m * Pow10(e - b.e)

GeTenths(a, b, n) ==
    LET e == IF a.e >= b.e THEN a.e ELSE b.e
    IN  10 * a.m * Pow10(e - a.e) >= n * b.m * Pow10(e - b.e)

-----------------------------------------------------------------------------
(* extract_amount: a case-insensitive re.search for a marker (inr, aed or   *)
(* the rupee sign), one optional whitespace character, and the group: one  *)
(* or more of digit or comma, an optional dot, any number of digits.       *)

Markers == << <<"i", "n", "r">>, <<"a", "e", "d">>, <<Rupee>> >>

\* (?i)(?:inr|aed|RUPEE) at position i: the position after the marker, 0 if none.
MarkerIgnoringCase(t, i) ==
    LET hit == {k \in 1..Len(Markers) :
                   /\ i + Len(Markers[k]) - 1 <= Len(t)
                   /\ \A j \in 1..Len(Markers[k]) :
                          LowerChar(t[i + j - 1]) = Markers[k][j]}
    IN  IF hit = {} THEN 0
        ELSE i + Len(Markers[CHOOSE k \in hit : \A k2 \in hit : k <= k2])

MarkerOptional(t, i) ==
    IF MarkerIgnoringCase(t, i) # 0 THEN MarkerIgnoringCase(t, i) ELSE i

MarkerEnd(t, i) == MarkerIgnoringCase(t, i)

\* Greedy run: how many characters from position j on belong to class.
SpanLen(t, j, class) ==
    CHOOSE n \in 0..(Len(t) + 1 - j) :
        /\ \A k \in 0..(n - 1) : t[j + k] \in class
        /\ (j + n > Len(t) \/ t[j + n] \notin class)

\* An optional dot and any number of digits from position p on: the position
\* of the last character they take (p - 1 when they take none).
FractionEnd(t, p) ==
    IF p <= Len(t) /\ t[p] = "." THEN p + SpanLen(t, p + 1, Digits)
    ELSE p - 1 + SpanLen(t, p, Digits)

\* The group at position j, whose run of digits and commas has n1 characters.
GroupOfRun(t, j, n1) ==
    IF n1 = 0 THEN <<>> ELSE SubSeq(t, j, FractionEnd(t, j + n1))

\* The group at position j: the captured text, <<>> when it cannot match.
GroupAt(t, j) ==
    IF j > Len(t) THEN <<>> ELSE GroupOfRun(t, j, SpanLen(t, j, DigitComma))

\* The rest of the pattern after a marker that ends before position a (0: no
\* marker).  The optional whitespace is greedy and backtracks.
AfterMarker(t, a) ==
    IF a = 0 THEN <<>>
    ELSE IF a <= Len(t) /\ t[a] \in Spaces /\ GroupAt(t, a + 1) # <<>>
         THEN GroupAt(t, a + 1)
         ELSE GroupAt(t, a)

\* The whole pattern anchored at i.
MatchAt(t, i) == AfterMarker(t, MarkerEnd(t, i))

\* The leftmost of the positions where the pattern matches.
Leftmost(t, hits) ==
    IF hits = {} THEN <<>>
    ELSE MatchAt(t, CHOOSE i \in hits : \A j \in hits : i <= j)

\* re.search: group(1) of the leftmost match, or <<>> when there is no match.
re_search(t) == Leftmost(t, {i \in 1..Len(t) : MatchAt(t, i) # <<>>})

\* if match: return float(match.group(1).replace(",", "")); return None
AmountOfGroup(g) ==
    IF g # <<>> THEN float(SelectSeq(g, LAMBDA c : c # ",")) ELSE NoneVal

extract_amount(t) == AmountOfGroup(re_search(t))

-----------------------------------------------------------------------------
(* detect_type *)

DebitKeywords ==
    << <<"d", "e", "b", "i", "t", "e", "d">>, <<"s", "p", "e", "n", "t">>,
       <<"p", "u", "r", "c", "h", "a", "s", "e">>, <<"p", "a", "i", "d">>,
       <<"w", "i", "t", "h", "d", "r", "a", "w", "a", "l">> >>

CreditKeywords ==
    << <<"c", "r", "e", "d", "i", "t", "e", "d">>,
       <<"r", "e", "c", "e", "i", "v", "e", "d">>,
       <<"r", "e", "f", "u", "n", "d">>, <<"d", "e", "p", "o", "s", "i", "t">>,
       <<"s", "a", "l", "a", "r", "y">> >>

AnyIn(keywords, s) == \E k \in 1..Len(keywords) : Contains(s, keywords[k])

detect_type_credit_first(t) ==
    LET s == Lower(t)
    IN  IF AnyIn(CreditKeywords, s) THEN "Credit"
        ELSE IF AnyIn(DebitKeywords, s) THEN "Debit"
        ELSE "Unknown"

detect_type(t) ==
    LET s == Lower(t)
    IN  IF AnyIn(DebitKeywords, s) THEN "Debit"
        ELSE IF AnyIn(CreditKeywords, s) THEN "Credit"
        ELSE "Unknown"

-----------------------------------------------------------------------------
(* Uploaded files *)

\* the message 'Paid INR 800 '
MsgPaid ==
    <<"P", "a", "i", "d", " ", "I", "N", "R", " ", "8", "0", "0", " ">>

\* the message 'salary aed 1,000'
MsgSalary ==
    <<"s", "a", "l", "a", "r", "y", " ", "a", "e", "d", " ", "1", ",", "0", "0", "0">>

\* the message 'spent (rupee)801 refund'
MsgSpentRefund ==
    <<"s", "p", "e", "n", "t", " ", Rupee, "8", "0", "1", " ", "r", "e", "f", "u", "n", "d">>

\* the message 'otp 42'
MsgOtp ==
    <<"o", "t", "p", " ", "4", "2">>

\* the message 'inr , due'
MsgSeparatorOnly ==
    <<"i", "n", "r", " ", ",", " ", "d", "u", "e">>

Catalog == <<MsgPaid, MsgSalary, MsgSpentRefund, MsgOtp, MsgSeparatorOnly>>

MaxRows == 2

Categories == {"Food", "Rent"}
\* groupby sorts its keys: the categories in that order.
CategoryOrder == <<"Food", "Rent">>

\* The headers of the uploaded tables: one with the SMS column beside another
\* column, one whose column is named in lower case.
Layouts == {<<"Date", "SMS">>, <<"sms">>}

NoFile == [kind |-> "none", columns |-> <<>>, sms |-> <<>>]
Garbage == [kind |-> "garbage", columns |-> <<>>, sms |-> <<>>]

\* The delimited tables a user may upload: a header and one to MaxRows rows.
CsvFiles ==
    {[kind |-> "csv", columns |-> c, sms |-> [i \in 1..n |-> Catalog[pick[i]]]] :
        c \in Layouts, n \in 1..MaxRows, pick \in [1..MaxRows -> 1..Len(Catalog)]}

Files == CsvFiles \cup {Garbage}

\* df["SMS"].astype(str).str.lower().str.strip()
Normalise(s) == Strip(Lower(s))

\* The three per-message steps, tabulated over the messages of the catalogue.
NormalisedSms == [k \in 1..Len(Catalog) |-> Normalise(Catalog[k])]
NormTexts == {NormalisedSms[k] : k \in 1..Len(Catalog)}
NormalisedOf == [t \in {Catalog[k] : k \in 1..Len(Catalog)} |-> Normalise(t)]
AmountOf == [t \in NormTexts |-> extract_amount(t)]
TypeOf == [t \in NormTexts |-> detect_type(t)]

\* The texts the classifier can be asked about: a frame with a message that
\* makes extract_amount raise never reaches model.predict.
ClassifiableTexts == {t \in NormTexts : AmountOf[t].kind # "ValueError"}

-----------------------------------------------------------------------------
(* Upload handling *)

\* pd.read_csv and the column check: the file's columns and messages when
\* df is a table, with the message shown; df stays None on either failure.
load_upload_ignoring_case(file) ==
    IF file.kind = "none" THEN [ok |-> FALSE, ui |-> {"info_please_upload"}]
    ELSE IF file.kind # "csv" THEN [ok |-> FALSE, ui |-> {"error_reading_file"}]
    ELSE IF \A i \in 1..Len(file.columns) : file.columns[i] \notin {"SMS", "sms"}
         THEN [ok |-> FALSE, ui |-> {"error_missing_sms"}]
    ELSE [ok |-> TRUE, ui |-> {"success_loaded"}]

load_upload(file) ==
    IF file.kind = "none" THEN [ok |-> FALSE, ui |-> {"info_please_upload"}]
    ELSE IF file.kind # "csv" THEN [ok |-> FALSE, ui |-> {"error_reading_file"}]
    ELSE IF \A i \in 1..Len(file.columns) : file.columns[i] # "SMS"
         THEN [ok |-> FALSE, ui |-> {"error_missing_sms"}]
    ELSE [ok |-> TRUE, ui |-> {"success_loaded"}]

-----------------------------------------------------------------------------
(* The pipeline: each step takes the frame df and gives the next one *)

\* df[name] = ...: a new column goes last, an existing one keeps its place.
AddColumn(columns, name) ==
    IF \E i \in 1..Len(columns) : columns[i] = name THEN columns
    ELSE Append(columns, name)

\* df = pd.read_csv(...); df["SMS"] = df["SMS"].astype(str).str.lower().str.strip()
Preprocess(file) ==
    [columns |-> file.columns,
     int_amount |-> FALSE,
     warned |-> FALSE,
     rows |-> [i \in 1..Len(file.sms) |->
                 [SMS |-> NormalisedOf[file.sms[i]], Amount |-> NoneVal,
                  Predicted_Category |-> "", Type |-> ""]]]

\* df["Amount"] = df["SMS"].apply(extract_amount)
ExtractAmounts(t) ==
    [t EXCEPT !.columns = AddColumn(t.columns, "Amount"),
              !.rows = [i \in 1..Len(t.rows) |->
                          [t.rows[i] EXCEPT !.Amount = AmountOf[t.rows[i].SMS]]]]

\* extract_amount raised inside apply: the pass is aborted at that line.
Raised(t) == \E i \in 1..Len(t.rows) : t.rows[i].Amount.kind = "ValueError"

AllNull(rows) == \A i \in 1..Len(rows) : rows[i].Amount.kind = "None"

\* if df["Amount"].isna().all(): warning, df["Amount"] = 0
\* else: df = df.dropna(subset=["Amount"])
HandleMissingAmounts(t) ==
    IF AllNull(t.rows)
    THEN [t EXCEPT !.warned = TRUE, !.int_amount = TRUE,
                   !.rows = [i \in 1..Len(t.rows) |->
                               [t.rows[i] EXCEPT !.Amount = Zero]]]
    ELSE [t EXCEPT !.rows = SelectSeq(t.rows, LAMBDA r : r.Amount.kind # "None")]

\* df["Predicted_Category"] = model.predict(vectorizer.transform(df["SMS"]))
PredictCategory(t, predict) ==
    [t EXCEPT !.columns = AddColumn(t.columns, "Predicted_Category"),
              !.rows = [i \in 1..Len(t.rows) |->
                          [t.rows[i] EXCEPT
                              !.Predicted_Category = predict[t.rows[i].SMS]]]]

\* df["Type"] = df["SMS"].apply(detect_type)
DetectTypes(t) ==
    [t EXCEPT !.columns = AddColumn(t.columns, "Type"),
              !.rows = [i \in 1..Len(t.rows) |->
                          [t.rows[i] EXCEPT !.Type = TypeOf[t.rows[i].SMS]]]]

-----------------------------------------------------------------------------
(* Filters and the aggregate snapshot *)

\* df[col].unique()
UniqueOf(rows, col) == {rows[i][col] : i \in 1..Len(rows)}

filter_by_type_only(rows, types, cats) ==
    SelectSeq(rows, LAMBDA r : r.Type \in types)

\* df[df.Type.isin(selected_type) & df.Predicted_Category.isin(selected_cat)]
FilterRows(rows, types, cats) ==
    SelectSeq(rows, LAMBDA r : r.Type \in types /\ r.Predicted_Category \in cats)

RECURSIVE SumAmount(_)
SumAmount(rows) ==
    IF rows = <<>> THEN Zero ELSE Add(Head(rows).Amount, SumAmount(Tail(rows)))

\* filtered_df[filtered_df["Type"] == type]["Amount"].sum()
TotalOf(rows, type) == SumAmount(SelectSeq(rows, LAMBDA r : r.Type = type))

Gt(a, b) == GtTenths(a, b, 10)

\* groupby("Predicted_Category")["Amount"].sum().idxmax(): the first key, in
\* sorted order, whose sum is the largest.
IdxMax(rows) ==
    LET groupSum(c) == SumAmount(SelectSeq(rows, LAMBDA r : r.Predicted_Category = c))
        present == {k \in 1..Len(CategoryOrder) :
                       CategoryOrder[k] \in UniqueOf(rows, "Predicted_Category")}
        best == {k \in present :
                    \A j \in present :
                        ~Gt(groupSum(CategoryOrder[j]), groupSum(CategoryOrder[k]))}
    IN  CategoryOrder[CHOOSE k \in best : \A j \in best : k <= j]

top_cat_first_key(rows) ==
    IF rows = <<>> THEN CategoryOrder[1] ELSE IdxMax(rows)

\* top_cat: idxmax if not filtered_df.empty else "N/A"
TopCat(rows) == IF rows = <<>> THEN "N/A" ELSE IdxMax(rows)

band_at_or_over(total_spent, total_credited) ==
    IF ~Gt(total_credited, Zero) THEN {}
    ELSE IF GeTenths(total_spent, total_credited, 8)
         THEN {"progress", "caption_ratio", "warning_over_80"}
    ELSE IF GtTenths(total_spent, total_credited, 6)
         THEN {"progress", "caption_ratio", "info_60_to_80"}
    ELSE {"progress", "caption_ratio", "success_healthy"}

\* The Smart Savings Advisor ratio branch.
SavingsBand(total_spent, total_credited) ==
    IF ~Gt(total_credited, Zero) THEN {}
    ELSE IF GtTenths(total_spent, total_credited, 8)
         THEN {"progress", "caption_ratio", "warning_over_80"}
    ELSE IF GtTenths(total_spent, total_credited, 6)
         THEN {"progress", "caption_ratio", "info_60_to_80"}
    ELSE {"progress", "caption_ratio", "success_healthy"}

\* The advice chosen from top_cat.
CategoryAdvice(top_cat) ==
    IF top_cat \in {"Food", "Shopping", "Bills", "Travel"}
    THEN {"advice_" \o top_cat}
    ELSE {"advice_keep_tracking"}

-----------------------------------------------------------------------------
(* The export *)

RECURSIVE FormatNat(_)
FormatNat(n) ==
    IF n < 10 THEN <<DigitChars[n + 1]>>
    ELSE Append(FormatNat(n \div 10), DigitChars[(n % 10) + 1])

RECURSIVE PadLeft(_, _)
PadLeft(ds, n) == IF Len(ds) >= n THEN ds ELSE PadLeft(<<"0">> \o ds, n)

\* to_csv's text of an amount: repr of the float, or the integer 0.
FormatAmount(a, int_amount) ==
    IF int_amount THEN FormatNat(a.m)
    ELSE IF a.e = 0 THEN FormatNat(a.m) \o <<".", "0">>
    ELSE FormatNat(a.m \div Pow10(a.e)) \o <<".">>
             \o PadLeft(FormatNat(a.m % Pow10(a.e)), a.e)

\* One cell of the export; a column the script never touches is carried over.
Cell(row, col, int_amount) ==
    CASE col = "SMS" -> row.SMS
      [] col = "Amount" -> FormatAmount(row.Amount, int_amount)
      [] col = "Predicted_Category" -> row.Predicted_Category
      [] col = "Type" -> row.Type
      [] OTHER -> "(carried over)"

\* filtered_df.to_csv(index=False): every column of the frame, in its order.
to_csv(columns, rows, int_amount) ==
    [header |-> columns,
     rows |-> [k \in 1..Len(rows) |->
                 [c \in 1..Len(columns) |-> Cell(rows[k], columns[c], int_amount)]]]

-----------------------------------------------------------------------------
(* One render pass: the script from top to bottom *)

\* What a pass leaves when df is None or an exception aborted it.
Halted(shown, e) ==
    [selected_type |-> {}, selected_cat |-> {}, df |-> <<>>, filtered_df |-> <<>>,
     snapshot |-> <<>>, ui |-> shown, csv |-> <<>>, exc |-> e]

\* The page below the metrics, for the filtered rows f and the three metrics.
Page(shown, t, types, cats, f, total_spent, total_credited, top_cat) ==
    [selected_type |-> types, selected_cat |-> cats, df |-> <<t>>,
     filtered_df |-> f,
     snapshot |-> <<[total_spent |-> total_spent,
                     total_credited |-> total_credited,
                     top_cat |-> top_cat]>>,
     ui |-> shown \cup (IF t.warned THEN {"warning_no_amounts"} ELSE {})
              \cup {"success_analyzed", "filters", "metrics"}
              \cup (IF f # <<>>
                    THEN {"pie", "bar", "table", "download"}
                             \cup SavingsBand(total_spent, total_credited)
                             \cup CategoryAdvice(top_cat)
                    ELSE {"warning_no_match"}),
     csv |-> IF f # <<>> THEN <<to_csv(t.columns, f, t.int_amount)>> ELSE <<>>,
     exc |-> "none"]

\* total_spent, total_credited and top_cat of filtered_df.
Metrics(shown, t, types, cats, f) ==
    Page(shown, t, types, cats, f, TotalOf(f, "Debit"), TotalOf(f, "Credit"),
         TopCat(f))

\* filtered_df for the values the two multiselects return.
Filtered(shown, t, types, cats) ==
    Metrics(shown, t, types, cats, FilterRows(t.rows, types, cats))

\* The sidebar.  defaults: the multiselects are new and return their default
\* (every value present in df); otherwise they return types and cats.
Sidebar(shown, t, types, cats, defaults) ==
    Filtered(shown, t,
             IF defaults THEN UniqueOf(t.rows, "Type") ELSE types,
             IF defaults THEN UniqueOf(t.rows, "Predicted_Category") ELSE cats)

\* From the Amount column on.
Analyse(shown, t, predict, types, cats, defaults) ==
    IF Raised(t) THEN Halted(shown \cup {"exception"}, "ValueError")
    ELSE Sidebar(shown \cup {"filters_header"},
                 DetectTypes(PredictCategory(HandleMissingAmounts(t), predict)),
                 types, cats, defaults)

\* if df is not None: ... else: st.info(...)
Process(up, file, predict, types, cats, defaults) ==
    IF ~up.ok THEN Halted(up.ui \cup {"info_choose_input"}, "none")
    ELSE Analyse(up.ui, ExtractAmounts(Preprocess(file)), predict, types, cats,
                 defaults)

\* The whole script.
Script(file, predict, types, cats, defaults) ==
    Process(load_upload(file), file, predict, types, cats, defaults)

Show(r) ==
    /\ selected_type' = r.selected_type
    /\ selected_cat' = r.selected_cat
    /\ df' = r.df
    /\ filtered_df' = r.filtered_df
    /\ snapshot' = r.snapshot
    /\ ui' = r.ui
    /\ csv' = r.csv
    /\ exc' = r.exc

\* The first pass of a session: nothing uploaded yet.
AppIdle ==
    /\ uploaded_file = NoFile
    /\ \E r \in {Script(NoFile, [t \in ClassifiableTexts |-> "Food"], {}, {}, TRUE)} :
           /\ selected_type = r.selected_type
           /\ selected_cat = r.selected_cat
           /\ df = r.df
           /\ filtered_df = r.filtered_df
           /\ snapshot = r.snapshot
           /\ ui = r.ui
           /\ csv = r.csv
           /\ exc = r.exc

\* The user puts a file in the uploader: a rerun with fresh filter widgets.
Upload ==
    \E file \in Files :
        /\ file # uploaded_file
        /\ uploaded_file' = file
        /\ \E r \in {Script(file, model, {}, {}, TRUE)} : Show(r)
        /\ UNCHANGED <<text, out, model>>

\* The user clears the uploader.
RemoveFile ==
    /\ uploaded_file # NoFile
    /\ uploaded_file' = NoFile
    /\ \E r \in {Script(NoFile, model, {}, {}, TRUE)} : Show(r)
    /\ UNCHANGED <<text, out, model>>

\* The user changes a multiselect: a rerun with the same file.
ChangeFilter ==
    /\ df # <<>>
    /\ \E types \in SUBSET UniqueOf(df[1].rows, "Type"),
          cats \in SUBSET UniqueOf(df[1].rows, "Predicted_Category") :
           /\ <<types, cats>> # <<selected_type, selected_cat>>
           /\ \E r \in {Script(uploaded_file, model, types, cats, FALSE)} : Show(r)
    /\ UNCHANGED <<text, out, model, uploaded_file>>

Init ==
    /\ text = <<>>
    /\ out = Pending
    /\ model \in [ClassifiableTexts -> Categories]
    /\ AppIdle

Next == Upload \/ RemoveFile \/ ChangeFilter

Spec == Init /\ [][Next]_vars

-----------------------------------------------------------------------------
(* The two pure functions on their own: every text made of a few fragments *)

MaxFragments == 4
MaxWords == 2

AmountFragments ==
    {<<"i", "n", "r">>, <<"A", "e", "d">>, <<Rupee>>, <<" ">>, <<",">>,
     <<".">>, <<"1">>, <<"0">>, <<"x">>}

TypeFragments ==
    {<<"d", "e", "b", "i", "t", "e", "d">>, <<"s", "p", "e", "n", "t">>,
     <<"p", "u", "r", "c", "h", "a", "s", "e">>, <<"p", "a", "i", "d">>,
     <<"w", "i", "t", "h", "d", "r", "a", "w", "a", "l">>,
     <<"c", "r", "e", "d", "i", "t", "e", "d">>,
     <<"r", "e", "c", "e", "i", "v", "e", "d">>,
     <<"r", "e", "f", "u", "n", "d">>, <<"d", "e", "p", "o", "s", "i", "t">>,
     <<"s", "a", "l", "a", "r", "y">>, <<"P", "A", "I", "D">>,
     <<"p", "a", "i">>, <<" ">>, <<"x">>}

TextsOf(fragments, n) ==
    {Concat(fs) : fs \in UNION {[1..k -> fragments] : k \in 0..n}}

AmountTexts == TextsOf(AmountFragments, MaxFragments)
TypeTexts == TextsOf(TypeFragments, MaxWords)

FnIdle == model = [t \in ClassifiableTexts |-> "Food"] /\ AppIdle

InitAmount == text \in AmountTexts /\ out = Pending /\ FnIdle

ExtractAmount ==
    /\ out = Pending
    /\ out' = extract_amount(text)
    /\ UNCHANGED <<text, appVars>>

SpecAmount == InitAmount /\ [][ExtractAmount]_vars

InitType == text \in TypeTexts /\ out = Pending /\ FnIdle

DetectType ==
    /\ out = Pending
    /\ out' = [kind |-> detect_type(text), m |-> 0, e |-> 0]
    /\ UNCHANGED <<text, appVars>>

SpecType == InitType /\ [][DetectType]_vars

-----------------------------------------------------------------------------
(* What the specification says, in its own terms *)

\* w is a substring of s.
OccursIn(w, s) ==
    \E i \in 0..(Len(s) - Len(w)) : \A k \in 1..Len(w) : s[i + k] = w[k]

StatedDebitWords ==
    {<<"d", "e", "b", "i", "t", "e", "d">>, <<"s", "p", "e", "n", "t">>,
     <<"p", "u", "r", "c", "h", "a", "s", "e">>, <<"p", "a", "i", "d">>,
     <<"w", "i", "t", "h", "d", "r", "a", "w", "a", "l">>}

StatedCreditWords ==
    {<<"c", "r", "e", "d", "i", "t", "e", "d">>,
     <<"r", "e", "c", "e", "i", "v", "e", "d">>,
     <<"r", "e", "f", "u", "n", "d">>, <<"d", "e", "p", "o", "s", "i", "t">>,
     <<"s", "a", "l", "a", "r", "y">>}

StatedMarkers == {<<"i", "n", "r">>, <<"a", "e", "d">>, <<Rupee>>}

HasDebitWord(t) == \E w \in StatedDebitWords : OccursIn(w, Lower(t))
HasCreditWord(t) == \E w \in StatedCreditWords : OccursIn(w, Lower(t))
HasMarker(t) == \E w \in StatedMarkers : OccursIn(w, Lower(t))

StatedType(t) ==
    IF HasDebitWord(t) THEN "Debit"
    ELSE IF HasCreditWord(t) THEN "Credit"
    ELSE "Unknown"

\* The position after a marker that starts at i, 0 when none starts there.
StatedMarkerEnd(t, i) ==
    LET ws == {w \in StatedMarkers :
                  /\ i + Len(w) - 1 <= Len(t)
                  /\ SubSeq(Lower(t), i, i + Len(w) - 1) = w}
    IN  IF ws = {} THEN 0 ELSE i + Len(CHOOSE w \in ws : TRUE)

\* A numeric literal at j: digits with optional thousands separators (so at
\* least one digit among them) and an optional fractional part; <<>> if none.
StatedNumberAt(t, j) ==
    IF j > Len(t) \/ SpanLen(t, j, DigitComma) = 0 THEN <<>>
    ELSE IF \A k \in j..(j + SpanLen(t, j, DigitComma) - 1) : t[k] \notin Digits
         THEN <<>>
    ELSE SubSeq(t, j, FractionEnd(t, j + SpanLen(t, j, DigitComma)))

\* The literal that follows a marker ending before a, past an optional
\* whitespace character.
StatedNumberAfter(t, a) ==
    IF a = 0 \/ a > Len(t) THEN <<>>
    ELSE IF t[a] \in Spaces THEN StatedNumberAt(t, a + 1)
    ELSE StatedNumberAt(t, a)

\* Where a marker followed by a number starts.
StatedOccurrences(t) ==
    {i \in 1..Len(t) : StatedNumberAfter(t, StatedMarkerEnd(t, i)) # <<>>}

StatedFirstNumber(t) ==
    StatedNumberAfter(t, StatedMarkerEnd(t,
        CHOOSE i \in StatedOccurrences(t) : \A j \in StatedOccurrences(t) : i <= j))

\* The numeric value of a literal, thousands separators removed.
StatedValue(lit) == float(SelectSeq(lit, LAMBDA c : c # ","))

\* a scaled to k decimal places, as an integer.
Scaled(a, k) == a.m * Pow10(k - a.e)

MaxExp(rows) ==
    CHOOSE k \in 0..9 :
        /\ \A i \in 1..Len(rows) : rows[i].Amount.e <= k
        /\ (k = 0 \/ \E i \in 1..Len(rows) : rows[i].Amount.e = k)

\* The sum of the amounts of the rows whose field has the value, scaled to k.
RECURSIVE SumWhere(_, _, _, _)
SumWhere(rows, field, value, k) ==
    IF rows = <<>> THEN 0
    ELSE (IF Head(rows)[field] = value THEN Scaled(Head(rows).Amount, k) ELSE 0)
             + SumWhere(Tail(rows), field, value, k)

\* The rows of the frame that the two selections admit, in order.
StatedFiltered(rows, types, cats) ==
    LET idx == {i \in 1..Len(rows) :
                   rows[i].Type \in types /\ rows[i].Predicted_Category \in cats}
    IN  [k \in 1..Cardinality(idx) |->
            rows[CHOOSE i \in idx : Cardinality({j \in idx : j <= i}) = k]]

ValidUpload ==
    /\ uploaded_file.kind = "csv"
    /\ \E i \in 1..Len(uploaded_file.columns) : uploaded_file.columns[i] = "SMS"

InvalidUpload ==
    \/ uploaded_file.kind = "garbage"
    \/ /\ uploaded_file.kind = "csv"
       /\ \A i \in 1..Len(uploaded_file.columns) : uploaded_file.columns[i] # "SMS"

\* The amounts of the uploaded messages, row by row.
UploadedAmounts ==
    [i \in 1..Len(uploaded_file.sms) |-> AmountOf[NormalisedOf[uploaded_file.sms[i]]]]

BandElements == {"warning_over_80", "info_60_to_80", "success_healthy"}
AdviceElements ==
    {"advice_Food", "advice_Shopping", "advice_Bills", "advice_Travel",
     "advice_keep_tracking"}
ResultElements ==
    {"pie", "bar", "progress", "caption_ratio", "table", "download"}
        \cup BandElements \cup AdviceElements

-----------------------------------------------------------------------------
(* The claims *)

\* C1: for every uploaded table with an SMS column the pass leaves an enriched
\* table; if some row has an extractable amount it holds exactly the rows
\* whose amount is not null, in their order; if none has, it holds every row,
\* each with amount 0.
C1_PipelineRowCount ==
    ValidUpload =>
        /\ df # <<>>
        /\ IF \E i \in 1..Len(UploadedAmounts) : UploadedAmounts[i].kind = "float"
           THEN [k \in 1..Len(df[1].rows) |-> df[1].rows[k].Amount]
                    = SelectSeq(UploadedAmounts, LAMBDA a : a.kind # "None")
           ELSE /\ Len(df[1].rows) = Len(uploaded_file.sms)
                /\ \A k \in 1..Len(df[1].rows) : df[1].rows[k].Amount = Zero

\* C2: detect_type returns Debit if a debit keyword is a substring of the
\* lower-cased text, else Credit if a credit keyword is, else Unknown; a text
\* with both kinds of keyword is Debit, one with neither is Unknown.
C2_TypeTagger ==
    out # Pending =>
        /\ out.kind = StatedType(text)
        /\ (HasDebitWord(text) /\ HasCreditWord(text) => out.kind = "Debit")
        /\ (~HasDebitWord(text) /\ ~HasCreditWord(text) => out.kind = "Unknown")

C2_Witness ==
    out.kind = "Debit" /\ HasDebitWord(text) /\ HasCreditWord(text)

\* C3: for a text that holds a marker followed by optional whitespace and a
\* numeric literal, extract_amount returns the value of the first such
\* literal, thousands separators removed.
C3_FirstMarkedNumber ==
    (out # Pending /\ StatedOccurrences(text) # {}) =>
        out = StatedValue(StatedFirstNumber(text))

\* C4: for a text that holds no marker, extract_amount returns None, never
\* zero nor any other number.
C4_NoMarkerNoValue ==
    (out # Pending /\ ~HasMarker(text)) => out = NoneVal

C4_Witness ==
    out = NoneVal /\ ~HasMarker(text) /\ \E i \in 1..Len(text) : text[i] \in Digits

\* C5: the export has exactly the four columns SMS, Amount, Type,
\* Predicted_Category, in that order, and one row per filtered transaction.
C5_ExportColumns ==
    csv # <<>> =>
        /\ csv[1].header = <<"SMS", "Amount", "Type", "Predicted_Category">>
        /\ Len(csv[1].rows) = Len(filtered_df)

\* C6: when the selection admits no row of the enriched table, nothing is
\* raised, top_cat is "N/A", both totals are 0, no chart, advice or export is
\* produced and the "no transactions match" message is shown.
C6_EmptySelection ==
    (df # <<>> /\ filtered_df = <<>>) =>
        /\ exc = "none"
        /\ snapshot = <<[total_spent |-> Zero, total_credited |-> Zero,
                         top_cat |-> "N/A"]>>
        /\ ui \cap ResultElements = {}
        /\ csv = <<>>
        /\ "warning_no_match" \in ui

C6_Witness ==
    /\ df # <<>>
    /\ Len(df[1].rows) > 0
    /\ filtered_df = <<>>
    /\ "warning_no_match" \in ui

\* C7: after any sequence of uploads and filter changes the snapshot shown is
\* a function of the table uploaded now and of the selection made now: the
\* frame holds messages of the current file as the classifier labels them,
\* the filtered set is exactly its records admitted by both selections,
\* total_spent and total_credited are the sums over its Debit and Credit
\* records, and top_cat is a category of maximal sum; without a frame there
\* is no snapshot.
C7_SnapshotOfCurrentInput ==
    IF df = <<>> THEN snapshot = <<>> /\ filtered_df = <<>>
    ELSE /\ ValidUpload
         /\ \A k \in 1..Len(df[1].rows) :
                /\ \E i \in 1..Len(uploaded_file.sms) :
                       df[1].rows[k].SMS = NormalisedOf[uploaded_file.sms[i]]
                /\ df[1].rows[k].Predicted_Category = model[df[1].rows[k].SMS]
         /\ filtered_df = StatedFiltered(df[1].rows, selected_type, selected_cat)
         /\ Len(snapshot) = 1
         /\ Scaled(snapshot[1].total_spent, MaxExp(filtered_df))
                = SumWhere(filtered_df, "Type", "Debit", MaxExp(filtered_df))
         /\ Scaled(snapshot[1].total_credited, MaxExp(filtered_df))
                = SumWhere(filtered_df, "Type", "Credit", MaxExp(filtered_df))
         /\ filtered_df # <<>> =>
                /\ \E k \in 1..Len(filtered_df) :
                       filtered_df[k].Predicted_Category = snapshot[1].top_cat
                /\ \A c \in Categories :
                       SumWhere(filtered_df, "Predicted_Category", c, MaxExp(filtered_df))
                           <= SumWhere(filtered_df, "Predicted_Category",
                                       snapshot[1].top_cat, MaxExp(filtered_df))

C7_Witness ==
    /\ df # <<>>
    /\ selected_type # {df[1].rows[k].Type : k \in 1..Len(df[1].rows)}
    /\ filtered_df # <<>>
    /\ Len(filtered_df) < Len(df[1].rows)
    /\ snapshot[1].total_spent # Zero

\* C8: the ratio and its band are produced exactly when the filtered set is
\* not empty and total_credited > 0; then exactly one band is chosen: the
\* warning iff total_spent > 0.8 * total_credited, the 60-80% notice iff
\* 0.6 * total_credited < total_spent <= 0.8 * total_credited, the healthy
\* message otherwise.  800 against 1000 is the notice, 801 the warning.
C8_SavingsBand ==
    LET produced == filtered_df # <<>> /\ snapshot[1].total_credited.m > 0
        s == snapshot[1].total_spent
        c == snapshot[1].total_credited
        k == IF s.e >= c.e THEN s.e ELSE c.e
    IN  /\ ("progress" \in ui) = produced
        /\ ("caption_ratio" \in ui) = produced
        /\ ~produced => ui \cap BandElements = {}
        /\ produced =>
              /\ Cardinality(ui \cap BandElements) = 1
              /\ ("warning_over_80" \in ui) = (10 * Scaled(s, k) > 8 * Scaled(c, k))
              /\ ("info_60_to_80" \in ui)
                     = /\ 10 * Scaled(s, k) > 6 * Scaled(c, k)
                       /\ 10 * Scaled(s, k) <= 8 * Scaled(c, k)
              /\ (s = Normalize(800, 0) /\ c = Normalize(1000, 0)
                      => "info_60_to_80" \in ui)
              /\ (s = Normalize(801, 0) /\ c = Normalize(1000, 0)
                      => "warning_over_80" \in ui)

C8_Witness ==
    /\ filtered_df # <<>>
    /\ snapshot[1].total_spent = Normalize(800, 0)
    /\ snapshot[1].total_credited = Normalize(1000, 0)
    /\ "info_60_to_80" \in ui

\* C9: when the uploaded file has no column named exactly SMS or cannot be
\* parsed, an error is shown and the pass halts: no pipeline step runs and no
\* metric, chart or export is produced.
C9_InvalidUploadHalts ==
    InvalidUpload =>
        /\ IF uploaded_file.kind = "csv" THEN "error_missing_sms" \in ui
           ELSE "error_reading_file" \in ui
        /\ df = <<>>
        /\ filtered_df = <<>>
        /\ snapshot = <<>>
        /\ csv = <<>>
        /\ ui \cap (ResultElements \cup {"success_analyzed", "warning_no_amounts",
                                         "filters", "metrics", "exception"}) = {}
        /\ exc = "none"

C9_Witness ==
    /\ uploaded_file.kind = "csv"
    /\ uploaded_file.columns = <<"sms">>
    /\ "error_missing_sms" \in ui
    /\ df = <<>>

\* C10: extract_amount is total: for every text it returns None or a
\* non-negative number and never raises.
C10_ExtractorTotal == out.kind \in {"pending", "None", "float"}

====
